---------------------------- MODULE Spec2Model ----------------------------
(***************************************************************************)
(* Consent & transaction synchronisation engine of the backend.            *)
(*                                                                         *)
(* State: the two tables bank_accounts and transactions, the provider's    *)
(* transaction feed, the wall clock, and one request handler per worker    *)
(* (each handler is a coroutine whose position is pc).  A handler gives    *)
(* up control at its database awaits, so every action below is the code    *)
(* between two awaits.                                                     *)
(*                                                                         *)
(* Python's None is the empty tuple <<>>, a present value x is <<x>>.      *)
(* Strings that the code slices (IBANs) are tuples of characters.          *)
(* Timestamps are whole days.                                              *)
(***************************************************************************)
EXTENDS Integers, Sequences, FiniteSets, TLC

VARIABLES
    bank_accounts,  \* table bank_accounts: sequence of rows, id = position
    transactions,   \* table transactions: sequence of rows, id = position
    feed,           \* provider side: [booked |-> <<..>>, pending |-> <<..>>]
    now,            \* wall clock, in days
    ticks,          \* number of clock advances so far
    pc,             \* pc[w]: position of worker w's handler
    loc,            \* loc[w]: the handler's local variables
    last,           \* what the handler that finished last returned or raised
    prev_sync,      \* history: the sync call before the last one, if it succeeded
    bank_session    \* one VPBank instance: the headers of its requests.Session,
                    \* and what its last operation sent and returned

vars == <<bank_accounts, transactions, feed, now, ticks, pc, loc, last, prev_sync,
          bank_session>>

---------------------------------------------------------------------------
(* Bounds of the model *)

MaxRows == 4
MaxTicks == 2
MaxFeed == 2
MaxIban == 5

(* Program constants *)

ConsentDays == 90

---------------------------------------------------------------------------
(* Values *)

None == <<>>
Some(x) == <<x>>
IsNone(o) == o = <<>>
Get(o) == o[1]

Workers == {"w1", "w2"}
Accounts == {1, 2}
BankProviderEnum == {"vpbank"}
ConsentStatus == {"valid", "expired", "revoked"}
ConsentIds == {"c1", "c2"}
TickSteps == {1, ConsentDays}

IBAN_A == <<"D", "E", "3", "0", "0", "0">>
IBAN_B == <<"A", "B", "C">>

(* Raw records of the provider feed, as the JSON objects the code reads. *)
RecA == [bookingDate |-> Some(1), valueDate |-> Some(1), amount |-> Some(1050),
         currency |-> Some("EUR"), creditorIban |-> Some(IBAN_A),
         debtorIban |-> None, creditorName |-> Some("Shop"), debtorName |-> None]
RecB == [bookingDate |-> None, valueDate |-> None, amount |-> Some(200),
         currency |-> None, creditorIban |-> None,
         debtorIban |-> Some(IBAN_B), creditorName |-> None, debtorName |-> Some("Bob")]
RecordPool == {RecA, RecB}

SeqsUpTo(S, n) == UNION {[1..k -> S] : k \in 0..n}

Feeds == {[booked |-> b, pending |-> q] :
            b \in SeqsUpTo(RecordPool, MaxFeed), q \in SeqsUpTo(RecordPool, MaxFeed)}

FeedSet == {f \in Feeds : Len(f.booked) + Len(f.pending) <= MaxFeed}

Range(s) == {s[i] : i \in 1..Len(s)}


---------------------------------------------------------------------------
(* transaction_service._extract_last4 *)

(* Faulty variant of _extract_last4: the slice taken from the front. *)
_extract_last4_from_front(iban) ==
    IF IsNone(iban) \/ Len(Get(iban)) = 0 THEN None
    ELSE IF Len(Get(iban)) >= 4
         THEN Some(SubSeq(Get(iban), 1, 4))
         ELSE Some(Get(iban))

_extract_last4(iban) ==
    IF IsNone(iban) \/ Len(Get(iban)) = 0 THEN None
    ELSE IF Len(Get(iban)) >= 4
         THEN Some(SubSeq(Get(iban), Len(Get(iban)) - 3, Len(Get(iban))))
         ELSE Some(Get(iban))

---------------------------------------------------------------------------
(* bank_account_repository *)

(* scalar_one_or_none over a selection: the row, or None. *)
OneOrNone(table, ids) == IF ids = {} THEN None ELSE Some(table[CHOOSE i \in ids : TRUE])

(* Faulty variant of get_bank_account_by_id: the owner is not part of the
   selection. *)
get_bank_account_by_id_any_owner(table, bank_account_id, account_id) ==
    OneOrNone(table, {i \in 1..Len(table) : table[i].id = bank_account_id})

get_bank_account_by_id(table, bank_account_id, account_id) ==
    OneOrNone(table, {i \in 1..Len(table) :
                        table[i].id = bank_account_id /\ table[i].account_id = account_id})

get_bank_account_by_consent_id(table, consent_id) ==
    OneOrNone(table, {i \in 1..Len(table) : table[i].consent_id = consent_id})

(* Called by the services, defined nowhere in the repository module. *)
get_bank_account_by_account_id(table, account_id) ==
    OneOrNone(table, {i \in 1..Len(table) : table[i].account_id = account_id})

(* What the id given by a caller names in the table: no row ("absent"), a
   row of the caller's account ("own"), or a row of another account
   ("foreign"). *)
NameKind(table, bank_account_id, account_id) ==
    IF \A i \in 1..Len(table) : table[i].id # bank_account_id THEN "absent"
    ELSE IF \E i \in 1..Len(table) :
               table[i].id = bank_account_id /\ table[i].account_id = account_id
         THEN "own"
         ELSE "foreign"

(* The unique index on consent_id: the commit of a second row with the same
   consent_id raises IntegrityError. *)
ConsentIdUnique(table, consent_id) ==
    \A i \in 1..Len(table) : table[i].consent_id # consent_id

(* Faulty variant of create_bank_account: the start of the consent window
   is stored in place of its end. *)
create_bank_account_window_start(table, account_id, bank_provider, consent_id, iban, consent_valid_until) ==
    Append(table, [id |-> Len(table) + 1,
                   account_id |-> account_id,
                   bank_provider |-> bank_provider,
                   consent_id |-> consent_id,
                   iban |-> iban,
                   consent_valid_until |-> consent_valid_until - ConsentDays,
                   consent_status |-> "valid",
                   is_active |-> TRUE,
                   last_synced_at |-> None])

create_bank_account(table, account_id, bank_provider, consent_id, iban, consent_valid_until) ==
    Append(table, [id |-> Len(table) + 1,
                   account_id |-> account_id,
                   bank_provider |-> bank_provider,
                   consent_id |-> consent_id,
                   iban |-> iban,
                   consent_valid_until |-> consent_valid_until,
                   consent_status |-> "valid",
                   is_active |-> TRUE,
                   last_synced_at |-> None])

(* History: the last row of the table, extended with the clock reading of
   the link call that created it. *)
Stamped(table, at) ==
    [i \in 1..Len(table) |->
        IF i < Len(table) THEN table[i]
        ELSE [f \in DOMAIN table[i] \cup {"linked_at"} |->
                IF f = "linked_at" THEN at ELSE table[i][f]]]

(* Faulty variant of update_bank_account_sync_time: only the first sync is
   recorded. *)
update_bank_account_sync_time_first_only(table, bank_account_id, sync_time) ==
    [i \in 1..Len(table) |->
        IF table[i].id = bank_account_id /\ IsNone(table[i].last_synced_at)
        THEN [table[i] EXCEPT !.last_synced_at = Some(sync_time)]
        ELSE table[i]]

update_bank_account_sync_time(table, bank_account_id, sync_time) ==
    [i \in 1..Len(table) |->
        IF table[i].id = bank_account_id
        THEN [table[i] EXCEPT !.last_synced_at = Some(sync_time)]
        ELSE table[i]]

---------------------------------------------------------------------------
(* transaction_repository *)

(* Faulty variant of bulk_create_transactions: the rows given take the place
   of the rows stored. *)
bulk_create_transactions_replace(table, rows) ==
    [i \in 1..Len(rows) |-> [rows[i] EXCEPT !.id = i]]

(* Faulty variant of bulk_create_transactions: a row equal, but for its id
   and booking_status, to a stored row is not inserted again. *)
bulk_create_transactions_skip_known(table, rows) ==
    LET Known(r) == \E t \in Range(table) :
                        [t EXCEPT !.id = 0, !.booking_status = "booked"]
                            = [r EXCEPT !.id = 0, !.booking_status = "booked"]
        RECURSIVE Add(_, _)
        Add(tb, i) == IF i > Len(rows) THEN tb
                      ELSE IF Known(rows[i]) THEN Add(tb, i + 1)
                      ELSE Add(Append(tb, [rows[i] EXCEPT !.id = Len(tb) + 1]), i + 1)
    IN  Add(table, 1)

(* The table as models/transaction_model.py declares it: a primary key and
   no other constraint, so add_all + commit appends every row given. *)
bulk_create_transactions(table, rows) ==
    table \o [i \in 1..Len(rows) |-> [rows[i] EXCEPT !.id = Len(table) + i]]

Min(a, b) == IF a <= b THEN a ELSE b

(* get_transactions_by_bank_account: the ids of the bank account's rows by
   descending booking_date, cut to the page.  The order of rows with equal
   booking_date is the database's choice: every order is a possible result. *)
Orderings(table, ids) ==
    {s \in [1..Cardinality(ids) -> ids] :
        /\ \A i, j \in 1..Cardinality(ids) : i # j => s[i] # s[j]
        /\ \A i, j \in 1..Cardinality(ids) :
              i < j => table[s[i]].booking_date >= table[s[j]].booking_date}

Page(s, limit, offset) == SubSeq(s, offset + 1, Min(Len(s), offset + limit))

TransactionsOf(table, bank_account_id) ==
    {i \in 1..Len(table) : table[i].bank_account_id = bank_account_id}

count_transactions_by_bank_account(table, bank_account_id) ==
    Cardinality(TransactionsOf(table, bank_account_id))

---------------------------------------------------------------------------
(* Handler results and locals *)

Idle == [account_id |-> 0, bank_account_id |-> 0, consent_id |-> None, iban |-> None,
         consent_valid_until |-> 0, to_create |-> <<>>,
         calls |-> <<>>, chk |-> None, probe |-> "none", added |-> 0, marked |-> FALSE,
         seen |-> None, named |-> "none", page |-> <<>>, collided |-> FALSE,
         at |-> 0, fresh |-> 0, fail |-> "none", steps |-> <<>>]

NoResult == [op |-> "none", exc |-> None, value |-> None, account_id |-> 0,
             bank_account_id |-> 0, calls |-> <<>>, chk |-> None, added |-> 0,
             marked |-> FALSE, seen |-> None, total |-> 0, probe |-> "none",
             named |-> "none", collided |-> FALSE, fresh |-> 0, fail |-> "none",
             steps |-> <<>>]

(* The handler of worker w ends: it returned value (exc = None) or raised exc.
   calls, chk, added and marked record what the call did: the provider
   requests it sent, what its first checks read, how the balance probe
   ended, the number of rows it committed, whether it wrote last_synced_at,
   the feed it fetched, and the rows the bank account holds as it ends;
   named says whose bank account the id given by the caller names, collided
   whether the consent id a link call obtained was that of a stored row,
   fresh how many of the records a sync inserted were not stored before,
   fail how the provider failed the call, if it did, steps the steps a link
   call went through, in order. *)
Finish(w, op, l, exc, value) ==
    /\ pc' = [pc EXCEPT ![w] = "idle"]
    /\ loc' = [loc EXCEPT ![w] = Idle]
    /\ last' = [op |-> op, exc |-> exc, value |-> value,
                account_id |-> l.account_id, bank_account_id |-> l.bank_account_id,
                calls |-> l.calls, chk |-> l.chk, added |-> l.added,
                marked |-> l.marked, seen |-> l.seen, probe |-> l.probe,
                named |-> l.named, collided |-> l.collided, fresh |-> l.fresh,
                fail |-> l.fail, steps |-> l.steps,
                total |-> count_transactions_by_bank_account(transactions, l.bank_account_id)]

Raise(w, op, l, exc) == Finish(w, op, l, Some(exc), None)

(* Outcomes of one HTTP request to the provider: a 2xx answer, an error
   status (raise_for_status raises HTTPError), or no answer at all
   (requests raises ConnectionError). *)
HttpOutcomes == {"ok", "http_error", "network_error"}

---------------------------------------------------------------------------
(* transaction_service.sync_transactions_from_bank *)

(* Faulty variant of ConsentNotValid: only a revoked consent is refused. *)
ConsentNotValid_revoked_only(bank_account) == bank_account.consent_status = "revoked"

(* Line 133. *)
ConsentNotValid(bank_account) == bank_account.consent_status # "valid"

(* Faulty variant of ConsentExpired: the comparison the wrong way round. *)
ConsentExpired_reversed(bank_account, t) == bank_account.consent_valid_until > t

(* Faulty variant of ConsentExpired: the instant consent_valid_until itself
   counts as expired. *)
ConsentExpired_exclusive(bank_account, t) == bank_account.consent_valid_until <= t

(* Line 137. *)
ConsentExpired(bank_account, t) == bank_account.consent_valid_until < t

(* One pass of the loop over booked + pending: the Transaction built for tx. *)
BuildTransaction(tx, booked, bank_account_id, t) ==
    [id |-> 0,
     bank_account_id |-> bank_account_id,
     booking_date |-> IF IsNone(tx.bookingDate) THEN t ELSE Get(tx.bookingDate),
     amount |-> IF IsNone(tx.amount) THEN 0 ELSE Get(tx.amount),
     creditor_account_last4 |-> _extract_last4(tx.creditorIban),
     debtor_account_last4 |-> _extract_last4(tx.debtorIban),
     value_date |-> tx.valueDate,
     currency |-> IF IsNone(tx.currency) THEN "EUR" ELSE Get(tx.currency),
     booking_status |-> IF tx \in Range(booked) THEN "booked" ELSE "pending",
     creditor_name |-> tx.creditorName,
     debtor_name |-> tx.debtorName]

HasBookingDate(tx) == ~IsNone(tx.bookingDate)

(* Faulty variant of TransactionsToCreate: a record without bookingDate is
   skipped. *)
TransactionsToCreate_skip_undated(tx_data, bank_account_id, t) ==
    LET all_transactions == SelectSeq(tx_data.booked \o tx_data.pending, HasBookingDate)
    IN  [i \in 1..Len(all_transactions) |->
            BuildTransaction(all_transactions[i], tx_data.booked, bank_account_id, t)]

TransactionsToCreate(tx_data, bank_account_id, t) ==
    LET all_transactions == tx_data.booked \o tx_data.pending
    IN  [i \in 1..Len(all_transactions) |->
            BuildTransaction(all_transactions[i], tx_data.booked, bank_account_id, t)]

(* Handlers that passed the consent checks and have not inserted yet: each
   may still add up to MaxFeed rows. *)
SyncsAhead == {w \in Workers : pc[w] \in {"sync_fetch", "sync_insert"}}

(* The table is kept within MaxRows: a sync goes on to the provider only
   while n more feeds fit. *)
RoomFor(n) == Len(transactions) + MaxFeed * n <= MaxRows

(* Lines 125-138: load the bank account for its owner, check the consent. *)
sync_load(w, bank_account_id, account_id) ==
    /\ pc[w] = "idle"
    /\ LET bank_account == get_bank_account_by_id(bank_accounts, bank_account_id, account_id)
           l0 == [Idle EXCEPT !.account_id = account_id,
                              !.bank_account_id = bank_account_id,
                              !.named = NameKind(bank_accounts, bank_account_id, account_id)]
       IN  IF IsNone(bank_account)
           THEN Raise(w, "sync", l0, "NotFoundException") /\ prev_sync' = None
           ELSE LET ba == Get(bank_account)
                    l == [l0 EXCEPT !.chk = Some([now |-> now,
                                                  until |-> ba.consent_valid_until,
                                                  status |-> ba.consent_status,
                                                  linked_at |-> ba.linked_at]),
                                    !.consent_id = Some(ba.consent_id),
                                    !.iban = Some(ba.iban)]
                IN  IF ConsentNotValid(ba) \/ ConsentExpired(ba, now)
                    THEN Raise(w, "sync", l, "BusinessRuleException") /\ prev_sync' = None
                    ELSE /\ RoomFor(Cardinality(SyncsAhead) + 1)
                         /\ pc' = [pc EXCEPT ![w] = "sync_fetch"]
                         /\ loc' = [loc EXCEPT ![w] = l]
                         /\ UNCHANGED <<last, prev_sync>>
    /\ UNCHANGED <<bank_accounts, transactions, feed, now, ticks>>

(* Faulty variant of sync_fetch: the exception of a request that got no
   answer is not caught. *)
sync_fetch_network_unwrapped(w) ==
    /\ pc[w] = "sync_fetch"
    /\ \E http \in HttpOutcomes :
         LET l == [loc[w] EXCEPT !.calls = Append(@, "get_transactions"),
                                 !.fail = IF http # "ok" THEN http ELSE "none"]
         IN  IF http # "ok"
             THEN /\ Raise(w, "sync", l, IF http = "network_error"
                                          THEN "ConnectionError"
                                          ELSE "BusinessRuleException")
                  /\ prev_sync' = None
             ELSE LET rows == TransactionsToCreate(feed, l.bank_account_id, now)
                  IN  /\ pc' = [pc EXCEPT ![w] =
                                  IF rows # <<>> THEN "sync_insert" ELSE "sync_time"]
                      /\ loc' = [loc EXCEPT ![w] = [l EXCEPT !.to_create = rows,
                                                             !.seen = Some(feed)]]
                      /\ UNCHANGED <<last, prev_sync>>
    /\ UNCHANGED <<bank_accounts, transactions, feed, now, ticks>>

(* Lines 152-225: fetch the feed from the provider and build the rows. *)
sync_fetch(w) ==
    /\ pc[w] = "sync_fetch"
    /\ \E http \in HttpOutcomes :
         LET l == [loc[w] EXCEPT !.calls = Append(@, "get_transactions"),
                                 !.fail = IF http # "ok" THEN http ELSE "none"]
         IN  IF http # "ok"
             THEN Raise(w, "sync", l, "BusinessRuleException") /\ prev_sync' = None
             ELSE LET rows == TransactionsToCreate(feed, l.bank_account_id, now)
                  IN  /\ pc' = [pc EXCEPT ![w] =
                                  IF rows # <<>> THEN "sync_insert" ELSE "sync_time"]
                      /\ loc' = [loc EXCEPT ![w] = [l EXCEPT !.to_create = rows,
                                                             !.seen = Some(feed)]]
                      /\ UNCHANGED <<last, prev_sync>>
    /\ UNCHANGED <<bank_accounts, transactions, feed, now, ticks>>

(* The dedup tuple of a row: the fields the loop marks as its unique key. *)
DedupTuple(row) ==
    <<row.booking_date, row.amount, row.creditor_account_last4, row.debtor_account_last4>>

(* The positions in rows of the rows whose dedup tuple no stored row of the
   same bank account carries. *)
FreshRows(table, rows) ==
    {i \in 1..Len(rows) :
        \A t \in Range(table) :
            t.bank_account_id = rows[i].bank_account_id
                => DedupTuple(t) # DedupTuple(rows[i])}

(* Lines 227-231: bulk insert. *)
sync_insert(w) ==
    /\ pc[w] = "sync_insert"
    /\ transactions' = bulk_create_transactions(transactions, loc[w].to_create)
    /\ loc' = [loc EXCEPT ![w].added = Len(loc[w].to_create),
                           ![w].fresh = Cardinality(FreshRows(transactions,
                                                              loc[w].to_create))]
    /\ pc' = [pc EXCEPT ![w] = "sync_time"]
    /\ UNCHANGED <<bank_accounts, feed, now, ticks, last, prev_sync>>

(* Lines 233-244: record the sync time and return the result. *)
sync_time(w) ==
    /\ pc[w] = "sync_time"
    /\ LET l == [loc[w] EXCEPT !.marked = TRUE]
           id == l.bank_account_id
           response == [synced_count |-> Len(Get(l.seen).booked \o Get(l.seen).pending),
                        new_transactions |-> Len(l.to_create),
                        last_synced_at |-> now]
       IN  /\ bank_accounts' = update_bank_account_sync_time(bank_accounts, id, now)
           /\ Finish(w, "sync", l, None, Some(response))
           /\ prev_sync' = IF last.op = "sync" /\ IsNone(last.exc)
                           THEN Some([bank_account_id |-> last.bank_account_id,
                                      seen |-> last.seen, total |-> last.total])
                           ELSE None
    /\ UNCHANGED <<transactions, feed, now, ticks>>

---------------------------------------------------------------------------
(* transaction_service.get_transactions *)

(* Page sizes and offsets the callers ask for; 100 and 0 are the defaults. *)
Limits == {1, 100}
Offsets == {0, 1}

(* _decrypt_transaction: the row as the response carries it. *)
_decrypt_transaction(row) ==
    [id |-> row.id, booking_date |-> row.booking_date, value_date |-> row.value_date,
     amount |-> row.amount, currency |-> row.currency,
     booking_status |-> row.booking_status,
     creditor_name |-> row.creditor_name, debtor_name |-> row.debtor_name,
     creditor_account_last4 |-> row.creditor_account_last4,
     debtor_account_last4 |-> row.debtor_account_last4]

(* Lines 71-76: the ownership check. *)
list_load(w, bank_account_id, account_id, limit, offset) ==
    /\ pc[w] = "idle"
    /\ LET bank_account == get_bank_account_by_id(bank_accounts, bank_account_id, account_id)
           l == [Idle EXCEPT !.account_id = account_id,
                             !.bank_account_id = bank_account_id,
                             !.named = NameKind(bank_accounts, bank_account_id, account_id),
                             !.page = <<limit, offset>>]
       IN  IF IsNone(bank_account)
           THEN Raise(w, "list", l, "NotFoundException")
           ELSE /\ pc' = [pc EXCEPT ![w] = "list_rows"]
                /\ loc' = [loc EXCEPT ![w] = l]
                /\ UNCHANGED last
    /\ UNCHANGED <<bank_accounts, transactions, feed, now, ticks, prev_sync>>

(* Lines 79-84: the page of rows, mapped to the response type. *)
list_rows(w) ==
    /\ pc[w] = "list_rows"
    /\ \E s \in Orderings(transactions, TransactionsOf(transactions, loc[w].bank_account_id)) :
         LET ids == Page(s, loc[w].page[1], loc[w].page[2])
         IN  loc' = [loc EXCEPT ![w].to_create =
                        [i \in 1..Len(ids) |-> _decrypt_transaction(transactions[ids[i]])]]
    /\ pc' = [pc EXCEPT ![w] = "list_count"]
    /\ UNCHANGED <<bank_accounts, transactions, feed, now, ticks, last, prev_sync>>

(* Lines 87-95: the total and the response. *)
list_count(w) ==
    /\ pc[w] = "list_count"
    /\ LET l == loc[w]
           response == [transactions |-> l.to_create,
                        total |-> count_transactions_by_bank_account(transactions,
                                                                     l.bank_account_id),
                        bank_account_id |-> l.bank_account_id]
       IN  Finish(w, "list", l, None, Some(response))
    /\ UNCHANGED <<bank_accounts, transactions, feed, now, ticks, prev_sync>>

---------------------------------------------------------------------------
(* bank_account_service.get_user_bank_account *)

(* Lines 36-43: the bank account of the caller, or None. *)
get_user_bank_account(w, account_id) ==
    /\ pc[w] = "idle"
    /\ Finish(w, "get_link", [Idle EXCEPT !.account_id = account_id], None,
              get_bank_account_by_account_id(bank_accounts, account_id))
    /\ UNCHANGED <<bank_accounts, transactions, feed, now, ticks, prev_sync>>

---------------------------------------------------------------------------
(* bank_account_service.get_balance *)

(* The balanceAmount object of the provider's answer: present, or empty. *)
BalanceData == {Some([amount |-> 1050, currency |-> "EUR"]), None}

(* Lines 66-107.  The only await is the load of the bank account; the
   request to the provider blocks the handler until it is answered. *)
get_balance(w, bank_account_id, account_id) ==
    /\ pc[w] = "idle"
    /\ LET bank_account == get_bank_account_by_id(bank_accounts, bank_account_id, account_id)
           l0 == [Idle EXCEPT !.account_id = account_id,
                              !.bank_account_id = bank_account_id,
                              !.named = NameKind(bank_accounts, bank_account_id, account_id)]
       IN  IF IsNone(bank_account)
           THEN Raise(w, "balance", l0, "NotFoundException")
           ELSE LET ba == Get(bank_account)
                    l == [l0 EXCEPT !.chk = Some([now |-> now,
                                                  until |-> ba.consent_valid_until,
                                                  status |-> ba.consent_status,
                                                  linked_at |-> ba.linked_at])]
                IN  IF ConsentNotValid(ba)
                    THEN Raise(w, "balance", l, "BusinessRuleException")
                    ELSE \E http \in HttpOutcomes, balance_data \in BalanceData :
                           LET lc == [l EXCEPT !.calls = <<"get_balance">>,
                                               !.fail = IF http # "ok" THEN http ELSE "none"]
                           IN  IF http # "ok" \/ IsNone(balance_data)
                               THEN Raise(w, "balance", lc, "BusinessRuleException")
                               ELSE Finish(w, "balance", lc, None, balance_data)
    /\ UNCHANGED <<bank_accounts, transactions, feed, now, ticks, prev_sync>>

---------------------------------------------------------------------------
(* bank_account_service.link_bank_account *)

(* Faulty variant of link_check: the existing-link check made inside the try
   block, whose handlers turn the ConflictException into
   BusinessRuleException. *)
link_check_inside_try(w, account_id, bank_provider) ==
    /\ pc[w] = "idle"
    /\ LET l == [Idle EXCEPT !.account_id = account_id,
                             !.chk = Some([linked |-> \E i \in 1..Len(bank_accounts) :
                                                       bank_accounts[i].account_id = account_id])]
           existing == get_bank_account_by_account_id(bank_accounts, account_id)
           l1 == [l EXCEPT !.steps = IF ~IsNone(existing)
                                     THEN <<"existing_link">>
                                     ELSE <<"existing_link", "provider_support">>]
       IN  IF ~IsNone(existing) \/ bank_provider # "vpbank"
           THEN Raise(w, "link", l1, "BusinessRuleException")
           ELSE /\ pc' = [pc EXCEPT ![w] = "link_provider"]
                /\ loc' = [loc EXCEPT ![w] = l1]
                /\ UNCHANGED last
    /\ UNCHANGED <<bank_accounts, transactions, feed, now, ticks, prev_sync>>

(* Lines 130-139: the existing-link check and the provider-support check. *)
link_check(w, account_id, bank_provider) ==
    /\ pc[w] = "idle"
    /\ LET l == [Idle EXCEPT !.account_id = account_id,
                             !.chk = Some([linked |-> \E i \in 1..Len(bank_accounts) :
                                                       bank_accounts[i].account_id = account_id])]
           l0 == [l EXCEPT !.steps = <<"existing_link">>]
           l1 == [l EXCEPT !.steps = <<"existing_link", "provider_support">>]
       IN  IF ~IsNone(get_bank_account_by_account_id(bank_accounts, account_id))
           THEN Raise(w, "link", l0, "ConflictException")
           ELSE IF bank_provider # "vpbank"
           THEN Raise(w, "link", l1, "BusinessRuleException")
           ELSE /\ pc' = [pc EXCEPT ![w] = "link_provider"]
                /\ loc' = [loc EXCEPT ![w] = l1]
                /\ UNCHANGED last
    /\ UNCHANGED <<bank_accounts, transactions, feed, now, ticks, prev_sync>>

(* VPBank.create_consent_and_get_iban followed by VPBank.get_balance, as
   link_bank_account calls them: the requests sent, in order, and how the
   sequence ends.  post, get and bal are the provider's three answers,
   consent_id the consentId of its first answer, access the account list of
   its second.  An answer other than "ok" to the first two requests raises;
   so does an empty account list (ValueError) and a missing consent id.
   get_balance returns success = FALSE on an error status and raises when
   there is no answer: success says whether the try block goes on, fail
   what went wrong at the provider.
   LinkProviderCalls_probe_ignored is a faulty variant: the success flag of
   get_balance is not looked at.  LinkProviderCalls_retry is another: a
   failed consent creation is tried a second time. *)
LinkProviderCalls_retry(post, consent_id, get, access, bal) ==
    IF post # "ok"
    THEN [calls |-> <<"create_consent", "create_consent">>, success |-> FALSE,
          probe |-> "none", consent_id |-> None, iban |-> None, fail |-> post]
    ELSE IF get # "ok" \/ access = <<>>
    THEN [calls |-> <<"create_consent", "consent_status">>, success |-> FALSE,
          probe |-> "none", consent_id |-> consent_id, iban |-> None,
          fail |-> IF get # "ok" THEN get ELSE "no_account"]
    ELSE IF IsNone(consent_id)
    THEN [calls |-> <<"create_consent", "consent_status">>, success |-> FALSE,
          probe |-> "none", consent_id |-> consent_id, iban |-> Some(access[1]),
          fail |-> "no_consent_id"]
    ELSE [calls |-> <<"create_consent", "consent_status", "get_balance">>,
          success |-> bal = "ok", probe |-> bal,
          consent_id |-> consent_id, iban |-> Some(access[1]),
          fail |-> IF bal # "ok" THEN bal ELSE "none"]

LinkProviderCalls_probe_ignored(post, consent_id, get, access, bal) ==
    IF post # "ok"
    THEN [calls |-> <<"create_consent">>, success |-> FALSE, probe |-> "none",
          consent_id |-> None, iban |-> None, fail |-> post]
    ELSE IF get # "ok" \/ access = <<>>
    THEN [calls |-> <<"create_consent", "consent_status">>, success |-> FALSE,
          probe |-> "none", consent_id |-> consent_id, iban |-> None,
          fail |-> IF get # "ok" THEN get ELSE "no_account"]
    ELSE IF IsNone(consent_id)
    THEN [calls |-> <<"create_consent", "consent_status">>, success |-> FALSE,
          probe |-> "none", consent_id |-> consent_id, iban |-> Some(access[1]),
          fail |-> "no_consent_id"]
    ELSE [calls |-> <<"create_consent", "consent_status", "get_balance">>,
          success |-> bal # "network_error", probe |-> bal,
          consent_id |-> consent_id, iban |-> Some(access[1]),
          fail |-> IF bal # "ok" THEN bal ELSE "none"]

LinkProviderCalls(post, consent_id, get, access, bal) ==
    IF post # "ok"
    THEN [calls |-> <<"create_consent">>, success |-> FALSE, probe |-> "none",
          consent_id |-> None, iban |-> None, fail |-> post]
    ELSE IF get # "ok" \/ access = <<>>
    THEN [calls |-> <<"create_consent", "consent_status">>, success |-> FALSE,
          probe |-> "none", consent_id |-> consent_id, iban |-> None,
          fail |-> IF get # "ok" THEN get ELSE "no_account"]
    ELSE IF IsNone(consent_id)
    THEN [calls |-> <<"create_consent", "consent_status">>, success |-> FALSE,
          probe |-> "none", consent_id |-> consent_id, iban |-> Some(access[1]),
          fail |-> "no_consent_id"]
    ELSE [calls |-> <<"create_consent", "consent_status", "get_balance">>,
          success |-> bal = "ok", probe |-> bal,
          consent_id |-> consent_id, iban |-> Some(access[1]),
          fail |-> IF bal # "ok" THEN bal ELSE "none"]

LinkProviderOutcomes ==
    {LinkProviderCalls(post, consent_id, get, access, bal) :
        post \in HttpOutcomes, get \in HttpOutcomes, bal \in HttpOutcomes,
        consent_id \in {Some(c) : c \in ConsentIds} \cup {None},
        access \in {<<>>, <<IBAN_A>>}}

(* Lines 152-182: consent creation, identifier discovery, balance probe and
   the lookup of the consent id among the stored links.  Every exception
   raised inside the try block, ConflictException included, leaves the
   handler as BusinessRuleException (lines 196-199). *)
link_provider(w) ==
    /\ pc[w] = "link_provider"
    /\ \E r \in LinkProviderOutcomes :
         LET l == [loc[w] EXCEPT !.calls = r.calls,
                                 !.probe = r.probe,
                                 !.consent_id = r.consent_id,
                                 !.iban = r.iban,
                                 !.fail = r.fail,
                                 !.steps = @ \o r.calls \o
                                     IF r.success THEN <<"consent_collision">> ELSE <<>>]
         IN  IF ~r.success
             THEN Raise(w, "link", l, "BusinessRuleException")
             ELSE IF ~IsNone(get_bank_account_by_consent_id(bank_accounts, Get(r.consent_id)))
             THEN Raise(w, "link", [l EXCEPT !.collided = TRUE], "BusinessRuleException")
             ELSE /\ pc' = [pc EXCEPT ![w] = "link_persist"]
                  /\ loc' = [loc EXCEPT ![w] =
                               [l EXCEPT !.consent_valid_until = now + ConsentDays,
                                         !.at = now]]
                  /\ UNCHANGED last
    /\ UNCHANGED <<bank_accounts, transactions, feed, now, ticks, prev_sync>>

(* Lines 184-194: create_bank_account and the response. *)
link_persist(w) ==
    /\ pc[w] = "link_persist"
    /\ LET l == [loc[w] EXCEPT !.steps = Append(@, "persist")]
       IN  IF ~ConsentIdUnique(bank_accounts, Get(l.consent_id))
           THEN /\ Raise(w, "link", [l EXCEPT !.collided = TRUE], "BusinessRuleException")
                /\ UNCHANGED bank_accounts
           ELSE /\ bank_accounts' =
                    Stamped(create_bank_account(bank_accounts, l.account_id, "vpbank",
                                Get(l.consent_id), Get(l.iban), l.consent_valid_until),
                            l.at)
                /\ Finish(w, "link", [l EXCEPT !.bank_account_id = Len(bank_accounts) + 1,
                                               !.added = 1],
                          None, Some(Len(bank_accounts) + 1))
    /\ UNCHANGED <<transactions, feed, now, ticks, prev_sync>>

---------------------------------------------------------------------------
(* bank/utils.py and bank/vpbank.py: one VPBank instance and its session *)

(* str(uuid.uuid4()): 36 characters, hyphens at 9, 14, 19 and 24, the
   version digit 4 at 15; the other positions, random, are all c here. *)
UuidLength == 36

Uuid(c) ==
    [i \in 1..UuidLength |->
        IF i \in {9, 14, 19, 24} THEN "-" ELSE IF i = 15 THEN "4" ELSE c]

Uuids == {Uuid("a"), Uuid("7")}

generate_request_id(base_uuid, last_digit) ==
    SubSeq(base_uuid, 1, Len(base_uuid) - 1) \o <<last_digit>>

(* The session headers the adapter touches.  A header that is absent, or
   whose value is None (requests does not send it), is None. *)
NoHeaders == [x_request_id |-> None, consent_id |-> None]

(* The session as its creator hands it to VPBank: without Consent-ID
   (link_bank_account, the scripts) or with the stored one (sync, balance). *)
NewSession(consent_id) ==
    [headers |-> [NoHeaders EXCEPT !.consent_id = consent_id],
     created |-> None, sent |-> <<>>, result |-> "none", status |-> None]

(* Faulty variant of WithRequestId: the header of the call before is
   reused. *)
WithRequestId_stale(headers, base_uuid, last_digit) == headers

(* session.headers.update({"X-Request-ID": generate_request_id(d)}) *)
WithRequestId(headers, base_uuid, last_digit) ==
    [headers EXCEPT !.x_request_id = Some(generate_request_id(base_uuid, last_digit))]

(* Faulty variant of DropConsent: the header is left in place. *)
DropConsent_kept(headers) == headers

(* if "Consent-ID" in self.session.headers: del self.session.headers["Consent-ID"] *)
DropConsent(headers) == [headers EXCEPT !.consent_id = None]

(* One request as the provider receives it. *)
Request(op, headers) ==
    [op |-> op, x_request_id |-> headers.x_request_id, consent_id |-> headers.consent_id]

(* The operation sent the requests reqs and ended with result; headers and
   created are what it leaves in the session, status the status code of the
   answer where the operation looks at it. *)
SentWith(headers, created, reqs, result, status) ==
    /\ bank_session' = [headers |-> headers, created |-> created,
                        sent |-> reqs, result |-> result, status |-> status]
    /\ UNCHANGED <<bank_accounts, transactions, feed, now, ticks, pc, loc, last, prev_sync>>

Sent(headers, created, reqs, result) == SentWith(headers, created, reqs, result, None)

(* Status codes the sandbox endpoints answer with. *)
SandboxStatuses == {200, 201, 204, 404, 500}

(* An answer of a sandbox endpoint: its status code, or None when the
   request got no answer (requests raises). *)
SandboxAnswers == {Some(c) : c \in SandboxStatuses} \cup {None}

(* Lines 23-58.  post and get are the provider's two answers, consent_id the
   consentId of the first, access the account list of the second. *)
VPBank_create_consent_and_get_iban(u1, u2, post, consent_id, get, access) ==
    LET h1 == WithRequestId(bank_session.headers, u1, "1")
        r1 == Request("create_consent", h1)
        h2 == WithRequestId([h1 EXCEPT !.consent_id = consent_id], u2, "2")
        r2 == Request("consent_status", h2)
    IN  IF post # "ok"
        THEN Sent(h1, bank_session.created, <<r1>>, "raised")
        ELSE Sent(h2, consent_id, <<r1, r2>>,
                  IF get # "ok" \/ access = <<>> THEN "raised" ELSE "value")

(* Lines 60-76. *)
VPBank_get_transaction_count(u, http) ==
    LET h == WithRequestId(bank_session.headers, u, "9")
    IN  Sent(h, bank_session.created, <<Request("get_transactions", h)>>,
             CASE http = "ok" -> "value"
               [] http = "http_error" -> "-1"
               [] OTHER -> "raised")

(* Lines 78-128. *)
VPBank_get_transactions_and_review(u, http) ==
    LET h == WithRequestId(bank_session.headers, u, "9")
    IN  Sent(h, bank_session.created, <<Request("get_transactions", h)>>,
             CASE http = "ok" -> "True"
               [] http = "http_error" -> "False"
               [] OTHER -> "raised")

(* Lines 130-151. *)
VPBank_get_balance(u, http) ==
    LET h == WithRequestId(bank_session.headers, u, "4")
    IN  Sent(h, bank_session.created, <<Request("get_balance", h)>>,
             CASE http = "ok" -> "True"
               [] http = "http_error" -> "False"
               [] OTHER -> "raised")

(* Lines 153-182.  A status that is neither 200, 204, 404 nor an error falls
   through raise_for_status and the method returns None. *)
VPBank_delete_all_transactions(u, answer) ==
    LET h == DropConsent(WithRequestId(bank_session.headers, u, "5"))
    IN  SentWith(h, bank_session.created, <<Request("delete_all_transactions", h)>>,
                 CASE IsNone(answer) -> "raised"
                   [] answer \in {Some(200), Some(204)} -> "True"
                   [] answer \in {Some(404), Some(500)} -> "False"
                   [] OTHER -> "None",
                 answer)

(* Lines 186-215. *)
VPBank_make_payment(u, http) ==
    LET h == WithRequestId(bank_session.headers, u, "8")
    IN  Sent(h, bank_session.created, <<Request("make_payment", h)>>,
             IF http = "ok" THEN "value" ELSE "raised")

(* Lines 217-260. *)
VPBank_create_mock_deposit(u, answer) ==
    LET h == WithRequestId(DropConsent(bank_session.headers), u, "6")
    IN  SentWith(h, bank_session.created, <<Request("create_mock_deposit", h)>>,
                 CASE IsNone(answer) -> "raised"
                   [] answer = Some(201) -> "True"
                   [] answer \in {Some(404), Some(500)} -> "False"
                   [] OTHER -> "None",
                 answer)

(* Lines 262-279. *)
VPBank_check_payment_status(u, http) ==
    LET h == WithRequestId(bank_session.headers, u, "2")
    IN  Sent(h, bank_session.created, <<Request("check_payment_status", h)>>,
             IF http = "ok" THEN "value" ELSE "raised")

---------------------------------------------------------------------------
(* Database failures during a sync *)

(* bulk_create_transactions raises: its commit failed, so none of its rows
   is stored.  The except clause of line 248 wraps the exception. *)
sync_insert_fails(w) ==
    /\ pc[w] = "sync_insert"
    /\ Raise(w, "sync", [loc[w] EXCEPT !.fail = "db_error"], "BusinessRuleException")
    /\ prev_sync' = None
    /\ UNCHANGED <<bank_accounts, transactions, feed, now, ticks>>

(* update_bank_account_sync_time raises: at its select or its commit
   (committed = FALSE), or at the refresh that follows its commit.  The rows
   bulk_create_transactions committed before stay committed. *)
sync_time_fails(w) ==
    /\ pc[w] = "sync_time"
    /\ \E committed \in BOOLEAN :
         /\ bank_accounts' =
               IF committed
               THEN update_bank_account_sync_time(bank_accounts,
                                                  loc[w].bank_account_id, now)
               ELSE bank_accounts
         /\ Raise(w, "sync", [loc[w] EXCEPT !.fail = "db_error",
                                            !.marked = committed],
                  "BusinessRuleException")
    /\ prev_sync' = None
    /\ UNCHANGED <<transactions, feed, now, ticks>>

---------------------------------------------------------------------------
(* Environment *)

tick(d) ==
    /\ ticks < MaxTicks
    /\ now' = now + d
    /\ ticks' = ticks + 1
    /\ UNCHANGED <<bank_accounts, transactions, feed, pc, loc, last, prev_sync>>

(* The provider books a new movement, settled or still pending. *)
provider_new_record(rec, bucket) ==
    /\ Len(feed.booked) + Len(feed.pending) < MaxFeed
    /\ feed' = IF bucket = "booked"
               THEN [feed EXCEPT !.booked = Append(@, rec)]
               ELSE [feed EXCEPT !.pending = Append(@, rec)]
    /\ UNCHANGED <<bank_accounts, transactions, now, ticks, pc, loc, last, prev_sync>>

(* The provider settles its oldest pending movement. *)
provider_books_pending ==
    /\ feed.pending # <<>>
    /\ feed' = [booked |-> Append(feed.booked, Head(feed.pending)),
                pending |-> Tail(feed.pending)]
    /\ UNCHANGED <<bank_accounts, transactions, now, ticks, pc, loc, last, prev_sync>>

(* A consent is revoked or marked expired outside this service. *)
consent_status_change(id, status) ==
    /\ id \in 1..Len(bank_accounts)
    /\ bank_accounts[id].consent_status = "valid"
    /\ bank_accounts' = [bank_accounts EXCEPT ![id].consent_status = status]
    /\ UNCHANGED <<transactions, feed, now, ticks, pc, loc, last, prev_sync>>

---------------------------------------------------------------------------
(* Specifications *)

BankAccountIds == 1..Cardinality(ConsentIds)

Init ==
    /\ bank_accounts = <<>>
    /\ transactions = <<>>
    /\ feed = [booked |-> <<>>, pending |-> <<>>]
    /\ now = 0
    /\ ticks = 0
    /\ pc = [w \in Workers |-> "idle"]
    /\ loc = [w \in Workers |-> Idle]
    /\ last = NoResult
    /\ prev_sync = None
    /\ bank_session = NewSession(None)

Link(w) ==
    /\ \/ \E a \in Accounts, b \in BankProviderEnum : link_check(w, a, b)
       \/ link_provider(w)
       \/ link_persist(w)
    /\ UNCHANGED bank_session

Sync(w) ==
    /\ \/ \E i \in BankAccountIds, a \in Accounts : sync_load(w, i, a)
       \/ sync_fetch(w)
       \/ sync_insert(w)
       \/ sync_time(w)
    /\ UNCHANGED bank_session

List(w) ==
    /\ \/ \E i \in BankAccountIds, a \in Accounts, n \in Limits, k \in Offsets :
             list_load(w, i, a, n, k)
       \/ list_rows(w)
       \/ list_count(w)
    /\ UNCHANGED bank_session

GetLink(w) ==
    /\ \E a \in Accounts : get_user_bank_account(w, a)
    /\ UNCHANGED bank_session

Balance(w) ==
    /\ \E i \in BankAccountIds, a \in Accounts : get_balance(w, i, a)
    /\ UNCHANGED bank_session

SyncDbFailure(w) ==
    /\ sync_insert_fails(w) \/ sync_time_fails(w)
    /\ UNCHANGED bank_session

Clock == (\E d \in TickSteps : tick(d)) /\ UNCHANGED bank_session

Provider ==
    /\ \/ \E rec \in RecordPool, bucket \in {"booked", "pending"} :
             provider_new_record(rec, bucket)
       \/ provider_books_pending
    /\ UNCHANGED bank_session

Revocation ==
    /\ \E i \in BankAccountIds, s \in ConsentStatus \ {"valid"} : consent_status_change(i, s)
    /\ UNCHANGED bank_session

(* The operations of one VPBank instance, in any order. *)
Adapter ==
    \/ \E u1 \in Uuids, u2 \in Uuids, post \in HttpOutcomes, get \in HttpOutcomes,
          consent_id \in {Some(c) : c \in ConsentIds} \cup {None},
          access \in {<<>>, <<IBAN_A>>} :
          VPBank_create_consent_and_get_iban(u1, u2, post, consent_id, get, access)
    \/ \E u \in Uuids, http \in HttpOutcomes :
          \/ VPBank_get_transaction_count(u, http)
          \/ VPBank_get_transactions_and_review(u, http)
          \/ VPBank_get_balance(u, http)
          \/ VPBank_make_payment(u, http)
          \/ VPBank_check_payment_status(u, http)
    \/ \E u \in Uuids, answer \in SandboxAnswers :
          \/ VPBank_delete_all_transactions(u, answer)
          \/ VPBank_create_mock_deposit(u, answer)

(* Every handler on every worker, any interleaving. *)
Next ==
    \/ \E w \in Workers : Link(w) \/ Sync(w) \/ List(w) \/ Balance(w) \/ GetLink(w)
    \/ \E w \in Workers : SyncDbFailure(w)
    \/ Clock \/ Provider \/ Revocation \/ Adapter

Spec == Init /\ [][Next]_vars

(* Linking: concurrent link_bank_account calls on an empty database. *)
NextLink == (\E w \in Workers : Link(w)) \/ Clock

SpecLink == Init /\ [][NextLink]_vars

(* The state link_bank_account leaves when account 1 links at time 0. *)
Linked ==
    /\ bank_accounts = Stamped(create_bank_account(<<>>, 1, "vpbank", "c1", IBAN_A,
                                                   0 + ConsentDays), 0)
    /\ transactions = <<>>
    /\ now = 0
    /\ ticks = 0
    /\ pc = [w \in Workers |-> "idle"]
    /\ loc = [w \in Workers |-> Idle]
    /\ last = NoResult
    /\ prev_sync = None
    /\ bank_session = NewSession(None)

InitLinked == Linked /\ feed = [booked |-> <<>>, pending |-> <<>>]

InitFixedFeed == Linked /\ feed \in FeedSet

(* Synchronisation of a linked account over a provider feed that stays as
   it is, the caller serialising its calls (one handler at a time). *)
NextSerial == Sync("w1")

SpecSerial == InitFixedFeed /\ [][NextSerial]_vars

(* Synchronisation of a linked account by concurrent sync calls while the
   provider's feed evolves. *)
NextSync == (\E w \in Workers : Sync(w)) \/ Provider

SpecSync == InitLinked /\ [][NextSync]_vars

(* The consent checks of sync: concurrent sync calls while the clock
   advances and the consent may be revoked; the provider's feed is empty or
   holds one settled movement. *)
InitGate == Linked /\ feed \in {f \in FeedSet : f.pending = <<>> /\ f.booked \in {<<>>, <<RecA>>}}

NextGate ==
    \/ \E w \in Workers : Sync(w)
    \/ Clock
    \/ Revocation

SpecGate == InitGate /\ [][NextGate]_vars

(* Calls of two tenants on a database that holds the bank account of
   account 1: syncs on one worker, listings on the other, over a provider
   feed that stays as it is. *)
NextOwner == Sync("w1") \/ List("w2")

SpecOwner == InitFixedFeed /\ [][NextOwner]_vars

(* An account links its bank account and syncs it while the clock advances. *)
WindowSteps == {1, ConsentDays - 1}

NextLinkSync ==
    \/ Link("w1")
    \/ Sync("w2")
    \/ (\E d \in WindowSteps : tick(d)) /\ UNCHANGED bank_session

SpecLinkSync == Init /\ [][NextLinkSync]_vars

(* Serial syncs of a linked account over a provider feed that stays as it
   is, while the clock advances. *)
NextIngest == Sync("w1") \/ Clock

SpecIngest == InitFixedFeed /\ [][NextIngest]_vars

(* Any sequence of operations on one VPBank instance, whose session was
   created without Consent-ID or with a stored one. *)
InitAdapter ==
    /\ bank_accounts = <<>>
    /\ transactions = <<>>
    /\ feed = [booked |-> <<>>, pending |-> <<>>]
    /\ now = 0
    /\ ticks = 0
    /\ pc = [w \in Workers |-> "idle"]
    /\ loc = [w \in Workers |-> Idle]
    /\ last = NoResult
    /\ prev_sync = None
    /\ bank_session \in {NewSession(c) : c \in {Some(i) : i \in ConsentIds} \cup {None}}

SpecAdapter == InitAdapter /\ [][Adapter]_vars

(* Account identifiers of every length up to MaxIban, the empty string and
   the absent identifier included. *)
IbanInputs == {Some(x) : x \in SeqsUpTo({"A", "0"}, MaxIban)} \cup {None}

RecWith(creditorIban, debtorIban) ==
    [RecA EXCEPT !.creditorIban = creditorIban, !.debtorIban = debtorIban]

(* Syncs of a linked account whose feed holds one settled movement, with
   any creditor identifier. *)
InitLast4 ==
    /\ Linked
    /\ \E c \in IbanInputs, d \in {None, Some(IBAN_B)} :
          feed = [booked |-> <<RecWith(c, d)>>, pending |-> <<>>]

SpecLast4 == InitLast4 /\ [][Sync("w1")]_vars

(* Balance requests for a linked account while the clock advances and the
   consent may be revoked. *)
NextBalance == (\E w \in Workers : Balance(w)) \/ Clock \/ Revocation

SpecBalance == InitLinked /\ [][NextBalance]_vars

(* The passing of time for a linked account whose owner keeps synchronising.
   The server answers every request it accepted and time does not stop, so
   the handler's steps and the clock are weakly fair. *)
NextExpiry == Sync("w1") \/ Clock

SpecExpiry == InitGate /\ [][NextExpiry]_vars /\ WF_vars(Sync("w1")) /\ WF_vars(Clock)

(* One caller synchronising a linked account while the provider adds
   movements and settles pending ones. *)
NextSettle == Sync("w1") \/ Provider

SpecSettle == InitLinked /\ [][NextSettle]_vars

(* Every operation of the service on a store that holds one link: one
   caller links and synchronises, another reads. *)
NextCore ==
    \/ Link("w1") \/ Sync("w1")
    \/ GetLink("w2") \/ Balance("w2") \/ List("w2")

SpecCore == InitGate /\ [][NextCore]_vars

(* One caller synchronising over a database whose statements may fail. *)
NextAtomic == Sync("w1") \/ SyncDbFailure("w1")

SpecAtomic == InitFixedFeed /\ [][NextAtomic]_vars

---------------------------------------------------------------------------
(* Properties *)

(* No two of the rows share bank account and dedup tuple. *)
NoDuplicates(rows) ==
    \A i, j \in 1..Len(rows) :
        (i # j /\ rows[i].bank_account_id = rows[j].bank_account_id)
            => DedupTuple(rows[i]) # DedupTuple(rows[j])

SyncReturned == last.op = "sync" /\ IsNone(last.exc)

(* last is a successful sync that directly follows a successful sync of the
   same bank account which fetched the same feed. *)
SyncRepeated ==
    /\ SyncReturned
    /\ ~IsNone(prev_sync)
    /\ Get(prev_sync).bank_account_id = last.bank_account_id
    /\ Get(prev_sync).seen = last.seen

(* C1: idempotence of sync.  A successful sync that directly follows a
   successful sync of the same bank account, the provider feed unchanged
   between the two, reports new_transactions = 0 and leaves the bank
   account with as many rows as the first call left. *)
C1_SyncIdempotent ==
    SyncRepeated => /\ Get(last.value).new_transactions = 0
                    /\ last.total = Get(prev_sync).total

(* C2: in every reachable state no two stored transactions of one bank
   account carry the same dedup tuple (booking_date, amount,
   creditor_account_last4, debtor_account_last4). *)
C2_DedupTupleUnique == NoDuplicates(transactions)

(* C3: bounded growth.  Over a provider feed that stays as it is, however
   many sync calls have succeeded, a bank account never holds more rows
   than the feed has records (an upper bound of its distinct transactions). *)
C3_BoundedGrowth ==
    \A i \in 1..Len(bank_accounts) :
        count_transactions_by_bank_account(transactions, i)
            <= Len(feed.booked) + Len(feed.pending)

(* Two sync handlers of the same bank account are in flight, both past
   their fetch, and neither fetched a feed that repeats a dedup tuple. *)
SyncsOverlap ==
    /\ \A w \in Workers : pc[w] \in {"sync_insert", "sync_time"}
    /\ \A v, w \in Workers : loc[v].bank_account_id = loc[w].bank_account_id
    /\ \A w \in Workers : NoDuplicates(loc[w].to_create)

(* C4: when two sync calls of one bank account run concurrently, the store
   never holds two rows with the same dedup tuple. *)
C4_ConcurrentSyncNoDuplicates == SyncsOverlap => NoDuplicates(transactions)

LinkEnded == last.op = "link"

Raised(exc) == last.exc = Some(exc)

(* The call sent no request to the provider, committed no row and did not
   write last_synced_at. *)
NoEffect == last.calls = <<>> /\ last.added = 0 /\ ~last.marked

(* C5: link_bank_account for an account that already has a bank account
   raises ConflictException before any provider request, and adds no row. *)
C5_LinkTwiceConflict ==
    (LinkEnded /\ Get(last.chk).linked) => Raised("ConflictException") /\ NoEffect

C5_Witness ==
    LinkEnded /\ Get(last.chk).linked /\ Raised("ConflictException") /\ bank_accounts # <<>>

(* C6: in every reachable state, interleaved link calls included, no two
   bank account rows belong to the same account. *)
C6_OneLinkPerAccount ==
    \A i, j \in 1..Len(bank_accounts) :
        i # j => bank_accounts[i].account_id # bank_accounts[j].account_id

(* C7: validation gate.  When the balance probe of link_bank_account fails
   (an error status, or no answer), the call raises BusinessRuleException
   and has added no bank account row. *)
C7_ProbeFailureNoLink ==
    (LinkEnded /\ last.probe \in {"http_error", "network_error"})
        => Raised("BusinessRuleException") /\ last.added = 0

C7_Witness ==
    /\ LinkEnded
    /\ last.probe = "http_error"
    /\ last.calls = <<"create_consent", "consent_status", "get_balance">>
    /\ Raised("BusinessRuleException")

SyncChecked == last.op = "sync" /\ ~IsNone(last.chk)

(* C8: expiry gate.  A sync that finds consent_valid_until earlier than the
   current time raises BusinessRuleException, sends nothing to the provider,
   stores no transaction and leaves last_synced_at alone, consent_status
   valid included. *)
C8_ExpiryGate ==
    (SyncChecked /\ Get(last.chk).until < Get(last.chk).now)
        => Raised("BusinessRuleException") /\ NoEffect

C8_Witness ==
    /\ SyncChecked
    /\ Get(last.chk).until < Get(last.chk).now
    /\ Get(last.chk).status = "valid"
    /\ Raised("BusinessRuleException")

(* C9, as claimed: consent_valid_until is an exclusive bound, a sync at
   now >= consent_valid_until is rejected without a provider request. *)
C9_ExclusiveBound ==
    (SyncChecked /\ Get(last.chk).now >= Get(last.chk).until)
        => Raised("BusinessRuleException") /\ last.calls = <<>>

(* C9, amended: consent_valid_until is an inclusive bound.  A sync of a
   valid consent is rejected by the expiry check, without a provider
   request, exactly when now > consent_valid_until; at
   now = consent_valid_until it goes on to the provider. *)
C9_InclusiveBound ==
    (SyncChecked /\ Get(last.chk).status = "valid")
        => ((Get(last.chk).now > Get(last.chk).until)
              <=> (Raised("BusinessRuleException") /\ last.calls = <<>>))

C9_Witness ==
    /\ SyncChecked
    /\ Get(last.chk).status = "valid"
    /\ Get(last.chk).now = Get(last.chk).until
    /\ last.calls = <<"get_transactions">>
    /\ SyncReturned

(* C10: a sync of a bank account whose consent_status is expired or revoked
   raises BusinessRuleException before any provider request and changes
   neither the stored transactions nor last_synced_at. *)
C10_StatusGate ==
    (SyncChecked /\ Get(last.chk).status \in {"expired", "revoked"})
        => Raised("BusinessRuleException") /\ NoEffect

C10_Witness ==
    /\ SyncChecked
    /\ Get(last.chk).status = "expired"
    /\ Get(last.chk).now <= Get(last.chk).until
    /\ Raised("BusinessRuleException")

(* What a caller can observe of a finished call, and what the call did. *)
Outcome ==
    [exc |-> last.exc, value |-> last.value, calls |-> last.calls,
     added |-> last.added, marked |-> last.marked]

NotFoundOutcome ==
    [exc |-> Some("NotFoundException"), value |-> None, calls |-> <<>>,
     added |-> 0, marked |-> FALSE]

(* C11: the ownership check hides existence.  A sync or a listing that names
   the bank account of another account ends exactly as one that names no
   bank account at all: NotFoundException, no provider request, nothing
   written. *)
C11_OwnershipHidesExistence ==
    (last.op \in {"sync", "list"} /\ last.named \in {"foreign", "absent"})
        => Outcome = NotFoundOutcome

C11_Witness ==
    /\ last.op = "list"
    /\ last.named = "foreign"
    /\ Outcome = NotFoundOutcome
    /\ transactions # <<>>

(* C12: when the consent id obtained by link_bank_account is the consent_id
   of a stored bank account, the call raises ConflictException and adds no
   row; no two stored rows share a consent_id. *)
C12_ConsentCollisionConflict ==
    /\ (LinkEnded /\ last.collided) => Raised("ConflictException") /\ last.added = 0
    /\ \A i, j \in 1..Len(bank_accounts) :
          i # j => bank_accounts[i].consent_id # bank_accounts[j].consent_id

LinkReturned == last.op = "link" /\ IsNone(last.exc)

(* C13: a bank account row is created with consent_status valid, is_active
   true, no last_synced_at and consent_valid_until = the time of linking
   + 90 days; a sync of a valid consent at a time before linking time + 90
   days is not stopped by the expiry check. *)
C13_LinkRowWindow ==
    /\ LinkReturned =>
          LET row == bank_accounts[Get(last.value)]
          IN  /\ row.consent_status = "valid"
              /\ row.is_active
              /\ IsNone(row.last_synced_at)
              /\ row.consent_valid_until = row.linked_at + 90
    /\ (SyncChecked /\ Get(last.chk).status = "valid"
           /\ Get(last.chk).now < Get(last.chk).linked_at + 90)
          => last.calls # <<>>

C13_Witness ==
    /\ SyncChecked
    /\ Get(last.chk).linked_at > 0
    /\ Get(last.chk).now = Get(last.chk).linked_at + 89
    /\ SyncReturned

(* C14: a sync that returns has set last_synced_at of its bank account to
   the time its result carries, the feed being empty or not; the handler
   writes it only once every row it built is inserted. *)
C14_LastSyncedAtSet ==
    /\ SyncReturned =>
          /\ last.marked
          /\ bank_accounts[last.bank_account_id].last_synced_at
                = Some(Get(last.value).last_synced_at)
    /\ \A w \in Workers :
          pc[w] = "sync_time" => loc[w].added = Len(loc[w].to_create)

(* A sync at time 2 over an empty feed. *)
C14_Witness ==
    /\ SyncReturned
    /\ last.seen = Some([booked |-> <<>>, pending |-> <<>>])
    /\ last.added = 0
    /\ Get(last.value).last_synced_at = 2
    /\ bank_accounts[last.bank_account_id].last_synced_at = Some(2)

(* C15: the result of a sync that returns reports synced_count = the number
   of booked plus pending records fetched, and new_transactions = the
   number of rows the call added, which are the fetched records that were
   not stored before. *)
C15_SyncCounts ==
    SyncReturned =>
        /\ Get(last.value).synced_count
              = Len(Get(last.seen).booked) + Len(Get(last.seen).pending)
        /\ Get(last.value).new_transactions = last.added
        /\ Get(last.value).new_transactions = last.fresh

(* C16: every failure of the provider during link_bank_account or
   sync_transactions_from_bank (an error status, no answer, a consent whose
   access list names no account) reaches the caller as
   BusinessRuleException, and no exception of another type leaves either
   operation once it has sent a request to the provider. *)
C16_ProviderFailuresWrapped ==
    last.op \in {"link", "sync"} =>
        /\ last.fail # "none" => Raised("BusinessRuleException")
        /\ (last.calls # <<>> /\ ~IsNone(last.exc)) => Raised("BusinessRuleException")

C16_Witness ==
    /\ LinkEnded
    /\ last.fail = "no_account"
    /\ last.calls = <<"create_consent", "consent_status">>
    /\ Raised("BusinessRuleException")
    /\ bank_accounts = <<>>

(* The store holds, for the bank account of the last call, a row made from
   the fetched record tx whose booking_date lies within the call. *)
StoredAtIngestion(tx) ==
    \E k \in 1..Len(transactions) :
        /\ transactions[k].bank_account_id = last.bank_account_id
        /\ transactions[k].amount = Get(tx.amount)
        /\ transactions[k].debtor_account_last4 = _extract_last4(tx.debtorIban)
        /\ transactions[k].creditor_account_last4 = _extract_last4(tx.creditorIban)
        /\ transactions[k].booking_date >= Get(last.chk).now
        /\ transactions[k].booking_date <= Get(last.value).last_synced_at

(* C17: a fetched record without booking date is not dropped.  A sync that
   returns has added one row per fetched record, and for every fetched
   record without bookingDate the store holds a row whose booking_date is
   the time the call ingested it. *)
C17_MissingBookingDateKept ==
    SyncReturned =>
        LET all_transactions == Get(last.seen).booked \o Get(last.seen).pending
        IN  /\ last.added = Len(all_transactions)
            /\ \A i \in 1..Len(all_transactions) :
                  IsNone(all_transactions[i].bookingDate)
                      => StoredAtIngestion(all_transactions[i])

C17_Witness ==
    /\ SyncReturned
    /\ Get(last.chk).now > 1
    /\ RecB \in Range(Get(last.seen).pending)
    /\ StoredAtIngestion(RecB)

SentBy(ops) == {i \in 1..Len(bank_session.sent) : bank_session.sent[i].op \in ops}

(* C18: every request a VPBank instance sends to a sandbox-only endpoint
   (delete_all_transactions, create_mock_deposit) carries X-Request-ID and
   no Consent-ID, whatever the instance did before. *)
C18_SandboxWithoutConsent ==
    \A i \in SentBy({"delete_all_transactions", "create_mock_deposit"}) :
        /\ ~IsNone(bank_session.sent[i].x_request_id)
        /\ IsNone(bank_session.sent[i].consent_id)

C18_Witness ==
    /\ ~IsNone(bank_session.created)
    /\ SentBy({"create_mock_deposit"}) # {}
    /\ IsNone(bank_session.headers.consent_id)

(* C19: once a VPBank instance has created a consent, every consent-status,
   balance and transaction-listing request it sends carries the Consent-ID
   of the consent it created last, also after a sandbox-only call. *)
C19_ConsentHeaderKept ==
    ~IsNone(bank_session.created) =>
        \A i \in SentBy({"consent_status", "get_balance", "get_transactions"}) :
            bank_session.sent[i].consent_id = bank_session.created

(* C20: the payment-initiation request of a VPBank instance carries
   X-Request-ID and no Consent-ID, also when the instance created a consent
   before. *)
C20_PaymentWithoutConsent ==
    \A i \in SentBy({"make_payment"}) :
        /\ ~IsNone(bank_session.sent[i].x_request_id)
        /\ IsNone(bank_session.sent[i].consent_id)

(* The last operation of the VPBank instance was op and got an answer. *)
Answered(op) ==
    /\ SentBy({op}) # {}
    /\ ~IsNone(bank_session.status)

(* C21: delete_all_transactions and create_mock_deposit return a boolean
   for every status of the answer: delete True exactly on 200 and 204,
   deposit True exactly on 201, False on 404 and on every other status. *)
C21_SandboxBooleans ==
    /\ Answered("delete_all_transactions") =>
          /\ bank_session.result \in {"True", "False"}
          /\ bank_session.result = "True" <=> Get(bank_session.status) \in {200, 204}
    /\ Answered("create_mock_deposit") =>
          /\ bank_session.result \in {"True", "False"}
          /\ bank_session.result = "True" <=> Get(bank_session.status) = 201

(* The digit each operation of the adapter hands to generate_request_id. *)
LastDigit(op) ==
    CASE op = "create_consent" -> "1"
      [] op \in {"consent_status", "check_payment_status"} -> "2"
      [] op = "get_balance" -> "4"
      [] op = "delete_all_transactions" -> "5"
      [] op = "create_mock_deposit" -> "6"
      [] op = "make_payment" -> "8"
      [] op = "get_transactions" -> "9"

(* id is some uuid with its last character replaced by d. *)
IsRequestId(id, d) ==
    /\ Len(id) = 36
    /\ id[36] = d
    /\ \E u \in Uuids : \A k \in 1..35 : id[k] = u[k]

(* C22: generate_request_id(d) is a generated UUID string with its last
   character replaced by d, 36 characters long, and every request of the
   adapter carries as X-Request-ID the identifier generated for it. *)
C22_RequestIdPerCall ==
    \A i \in 1..Len(bank_session.sent) :
        /\ ~IsNone(bank_session.sent[i].x_request_id)
        /\ IsRequestId(Get(bank_session.sent[i].x_request_id),
                       LastDigit(bank_session.sent[i].op))

(* A balance request on an instance that created a consent before: the
   header holds the identifier generated for the balance request. *)
C22_Witness ==
    /\ ~IsNone(bank_session.created)
    /\ SentBy({"get_balance"}) # {}
    /\ Get(bank_session.headers.x_request_id) = [Uuid("7") EXCEPT ![36] = "4"]

(* v is what the claim derives from the account identifier s. *)
IsLast4Of(v, s) ==
    IF IsNone(s) \/ Get(s) = <<>> THEN IsNone(v)
    ELSE /\ ~IsNone(v)
         /\ Len(Get(v)) <= 4
         /\ IF Len(Get(s)) >= 4
            THEN /\ Len(Get(v)) = 4
                 /\ \A k \in 1..4 : Get(v)[k] = Get(s)[Len(Get(s)) - 4 + k]
            ELSE Get(v) = Get(s)

(* C23: last-4 derivation.  The value stored for an account identifier is
   its last 4 characters when it has 4 or more, the identifier itself when
   it has 1 to 3, and none when it is absent or empty; it never has more
   than 4 characters. *)
C23_Last4Derivation ==
    \A k \in 1..Len(transactions) :
        /\ IsLast4Of(transactions[k].creditor_account_last4, feed.booked[1].creditorIban)
        /\ IsLast4Of(transactions[k].debtor_account_last4, feed.booked[1].debtorIban)

C23_Witness ==
    /\ transactions # <<>>
    /\ feed.booked[1].creditorIban = Some(<<"A", "0", "A", "0", "0">>)
    /\ transactions[1].creditor_account_last4 = Some(<<"0", "A", "0", "0">>)
    /\ transactions[1].debtor_account_last4 = Some(IBAN_B)

BalanceChecked == last.op = "balance" /\ ~IsNone(last.chk)

(* C24: get_balance raises BusinessRuleException, without a request to the
   provider, when the consent has expired: its status says so, or
   consent_valid_until has passed while the status is still valid. *)
C24_BalanceExpiryGate ==
    (BalanceChecked /\ (Get(last.chk).status = "expired"
                          \/ Get(last.chk).until < Get(last.chk).now))
        => Raised("BusinessRuleException") /\ last.calls = <<>>

(* The link created first is valid and the clock is past its consent_valid_until. *)
PastValidity ==
    /\ Len(bank_accounts) >= 1
    /\ bank_accounts[1].consent_status = "valid"
    /\ bank_accounts[1].consent_valid_until < now

ReadsExpired ==
    /\ Len(bank_accounts) >= 1
    /\ bank_accounts[1].consent_status = "expired"

(* C25: once the clock is past consent_valid_until of a valid link, the
   stored consent_status eventually reads expired. *)
C25_ConsentExpiryTransition == PastValidity ~> ReadsExpired

(* last is a successful sync that directly follows a successful sync of the
   same bank account. *)
SyncFollowsSync ==
    /\ SyncReturned
    /\ ~IsNone(prev_sync)
    /\ Get(prev_sync).bank_account_id = last.bank_account_id

(* The record r was pending, and not booked, in the feed the earlier sync
   fetched and is booked in the feed the later sync fetched. *)
Settled(r) ==
    /\ SyncFollowsSync
    /\ r \in Range(Get(Get(prev_sync).seen).pending)
    /\ r \notin Range(Get(Get(prev_sync).seen).booked)
    /\ r \in Range(Get(last.seen).booked)

(* The stored rows of the bank account of the last call that carry the
   dedup tuple of the record r. *)
RowsOf(r) ==
    {k \in 1..Len(transactions) :
        /\ transactions[k].bank_account_id = last.bank_account_id
        /\ DedupTuple(transactions[k])
              = DedupTuple(BuildTransaction(r, <<>>, last.bank_account_id,
                                            Get(last.chk).now))}

Occurrences(r, s) == Cardinality({i \in 1..Len(s) : s[i] = r})

(* C26: a record pending at one sync and booked, with the same dedup tuple,
   at the next is inserted again by the later sync as a row with
   booking_status booked: the store holds the pending row of the earlier sync
   and the booked row of the later one, and exactly these two when the
   earlier sync started from an empty store and each feed held the record
   once. *)
C26_PendingThenBookedTwoRows ==
    \A r \in RecordPool :
        Settled(r) =>
            LET before == Get(prev_sync).total
                earlier == Get(Get(prev_sync).seen)
                later == Get(last.seen)
            IN  /\ \E k \in RowsOf(r) :
                      k <= before /\ transactions[k].booking_status = "pending"
                /\ \E k \in RowsOf(r) :
                      /\ k > before /\ k <= last.total
                      /\ transactions[k].booking_status = "booked"
                /\ ( /\ before = Len(earlier.booked \o earlier.pending)
                     /\ Occurrences(r, earlier.booked \o earlier.pending) = 1
                     /\ Occurrences(r, later.booked \o later.pending) = 1
                     /\ Len(transactions) = last.total )
                       => Cardinality(RowsOf(r)) = 2

C26_Witness ==
    /\ Settled(RecA)
    /\ Len(transactions) = last.total
    /\ Cardinality(RowsOf(RecA)) = 2
    /\ \E j, k \in RowsOf(RecA) :
          /\ j < k
          /\ transactions[j].booking_status = "pending"
          /\ transactions[k].booking_status = "booked"

(* The steps of link_bank_account, in the order of its code. *)
LinkSteps ==
    <<"existing_link", "provider_support", "create_consent", "consent_status",
      "get_balance", "consent_collision", "persist">>

IsPrefix(s, t) == Len(s) <= Len(t) /\ s = SubSeq(t, 1, Len(s))

IsProviderCall(step) == step \in {"create_consent", "consent_status", "get_balance"}

(* C27: a link call goes through its steps in the order existing-link
   check, provider-support check, consent creation, consent-status lookup,
   balance probe, consent-collision check, persist, each at most once; the
   row is written only after the three provider calls succeeded; the step
   that fails is the last one the call executes. *)
C27_LinkStepOrder ==
    /\ \A w \in Workers :
          /\ IsPrefix(loc[w].steps, LinkSteps)
          /\ loc[w].calls = SelectSeq(loc[w].steps, IsProviderCall)
          /\ pc[w] = "link_persist"
                => loc[w].steps = SubSeq(LinkSteps, 1, 6) /\ loc[w].probe = "ok"
    /\ LinkEnded =>
          /\ IsPrefix(last.steps, LinkSteps)
          /\ last.calls = SelectSeq(last.steps, IsProviderCall)
          /\ last.added = 1 <=> IsNone(last.exc)
          /\ IsNone(last.exc) => last.steps = LinkSteps /\ last.probe = "ok"
          /\ Raised("ConflictException") => last.steps = <<"existing_link">>
          /\ last.fail # "none"
                => IsProviderCall(last.steps[Len(last.steps)]) /\ ~IsNone(last.exc)
          /\ (~IsNone(last.exc) /\ last.fail = "none" /\ Len(last.steps) > 2)
                => /\ last.collided
                   /\ last.steps[Len(last.steps)] \in {"consent_collision", "persist"}

C27_Witness ==
    /\ LinkReturned
    /\ last.steps = LinkSteps
    /\ last.calls = <<"create_consent", "consent_status", "get_balance">>
    /\ bank_accounts[Get(last.value)].account_id = last.account_id

(* C28: transaction rows are append-only.  Every step of every operation
   leaves the rows stored before it as they are and in place; only the
   insert of a sync changes the table, by adding rows at its end. *)
C28_RowsAppendOnly ==
    [][/\ IsPrefix(transactions, transactions')
       /\ transactions' # transactions
             => \E w \in Workers : pc[w] = "sync_insert" /\ pc'[w] = "sync_time"]_vars

C28_Witness ==
    /\ SyncFollowsSync
    /\ Get(prev_sync).total > 0
    /\ last.added > 0
    /\ Len(transactions) = Get(prev_sync).total + last.added
    /\ pc["w2"] = "list_count"

(* C29: a sync is all-or-nothing.  A sync that raises has committed none of
   the rows it built and has not written last_synced_at. *)
C29_SyncAllOrNothing ==
    (last.op = "sync" /\ ~IsNone(last.exc)) => last.added = 0 /\ ~last.marked

(* C30: every row a sync stored carries the booking_status of the bucket its
   record came from: the i-th row the call inserted is booked when the i-th
   fetched record lies in the booked list, pending when it lies in the
   pending list, whatever the content of the other records. *)
C30_StatusIsBucket ==
    SyncReturned =>
        LET booked == Get(last.seen).booked
            base == last.total - last.added
        IN  \A i \in 1..last.added :
                transactions[base + i].booking_status
                    = IF i <= Len(booked) THEN "booked" ELSE "pending"

===========================================================================
